---- MODULE Spec2Model ----
(***************************************************************************)
(* A model of the IntelliDoc-AI multi-engine OCR text-recovery pipeline    *)
(* (backend/app/services/advanced_ocr_service.py): the confidence scorer,  *)
(* the three engine adapters, the consensus selector, the text             *)
(* post-processor, the character disambiguator and the image enhancer,     *)
(* and of the progress of a document-processing task                       *)
(* (backend/app/tasks/queue.py, celery_tasks.py, services/pdf_service.py). *)
(*                                                                         *)
(* Texts are TLA+ strings (sequences of characters) over ASCII; the        *)
(* Python string and regular-expression operations the service uses are    *)
(* defined below by what they compute.  Confidences are exact rationals    *)
(* [num, den]; the service computes them in IEEE doubles.                  *)
(***************************************************************************)
EXTENDS Integers, Sequences, FiniteSets, TLC

\* ------------------------------------------------------------------------
\* Python str primitives
\* ------------------------------------------------------------------------

Char(s, i) == SubSeq(s, i, i)

LowerAlphabet == "abcdefghijklmnopqrstuvwxyz"

UpperAlphabet == "ABCDEFGHIJKLMNOPQRSTUVWXYZ"

LowerSet == {Char(LowerAlphabet, i) : i \in 1..Len(LowerAlphabet)}

UpperSet == {Char(UpperAlphabet, i) : i \in 1..Len(UpperAlphabet)}

IsDigit(c) == c \in {"0", "1", "2", "3", "4", "5", "6", "7", "8", "9"}

IsUpper(c) == c \in UpperSet

IsLower(c) == c \in LowerSet

IsAlpha(c) == c \in LowerSet \/ c \in UpperSet

IsAlnum(c) == IsAlpha(c) \/ IsDigit(c)

\* the regex class \w; \W is its complement
IsWordChar(c) == IsAlnum(c) \/ c = "_"

\* str.isspace on the ASCII whitespace characters; also the regex class \s
IsSpace(c) == c \in {" ", "\t", "\n", "\r", "\f"}

LowerChar(c) ==
    IF c \in UpperSet
    THEN Char(LowerAlphabet, CHOOSE i \in 1..Len(UpperAlphabet) : Char(UpperAlphabet, i) = c)
    ELSE c

RECURSIVE Lower(_)
Lower(s) == IF s = "" THEN "" ELSE LowerChar(Char(s, 1)) \o Lower(SubSeq(s, 2, Len(s)))

\* needle in hay
Contains(hay, needle) ==
    \E i \in 1..(Len(hay) - Len(needle) + 1) : SubSeq(hay, i, i + Len(needle) - 1) = needle

EndsWith(s, suffix) ==
    Len(s) >= Len(suffix) /\ SubSeq(s, Len(s) - Len(suffix) + 1, Len(s)) = suffix

\* s.replace(a, b) for a single character a
RECURSIVE ReplaceChar(_, _, _)
ReplaceChar(s, a, b) ==
    IF s = "" THEN ""
    ELSE (IF Char(s, 1) = a THEN b ELSE Char(s, 1)) \o ReplaceChar(SubSeq(s, 2, Len(s)), a, b)

AnyDigit(s) == \E i \in 1..Len(s) : IsDigit(Char(s, i))

AnyUpper(s) == \E i \in 1..Len(s) : IsUpper(Char(s, i))

AnyLower(s) == \E i \in 1..Len(s) : IsLower(Char(s, i))

\* text.split(): the maximal runs of non-whitespace, in order
RECURSIVE SplitFrom(_, _, _)
SplitFrom(s, i, cur) ==
    IF i > Len(s) THEN (IF cur = "" THEN <<>> ELSE <<cur>>)
    ELSE IF IsSpace(Char(s, i))
         THEN (IF cur = "" THEN <<>> ELSE <<cur>>) \o SplitFrom(s, i + 1, "")
         ELSE SplitFrom(s, i + 1, cur \o Char(s, i))

Split(s) == SplitFrom(s, 1, "")

\* sep.join(words)
RECURSIVE Join(_, _)
Join(words, sep) ==
    IF words = <<>> THEN ""
    ELSE IF Len(words) = 1 THEN words[1]
    ELSE words[1] \o sep \o Join(Tail(words), sep)

\* first index >= i of s at which the run of characters of class cls ends
RECURSIVE WordRunEnd(_, _)
WordRunEnd(s, i) == IF i <= Len(s) /\ IsWordChar(Char(s, i)) THEN WordRunEnd(s, i + 1) ELSE i

RECURSIVE SpaceRunEnd(_, _)
SpaceRunEnd(s, i) == IF i <= Len(s) /\ IsSpace(Char(s, i)) THEN SpaceRunEnd(s, i + 1) ELSE i

\* s.strip()
LStripIndex(s) == SpaceRunEnd(s, 1)

RECURSIVE RStripIndex(_, _)
RStripIndex(s, j) == IF j >= 1 /\ IsSpace(Char(s, j)) THEN RStripIndex(s, j - 1) ELSE j

Strip(s) == SubSeq(s, LStripIndex(s), RStripIndex(s, Len(s)))

\* s.strip(chars)
RECURSIVE LStripCharsIndex(_, _, _)
LStripCharsIndex(s, chars, i) ==
    IF i <= Len(s) /\ Contains(chars, Char(s, i)) THEN LStripCharsIndex(s, chars, i + 1) ELSE i

RECURSIVE RStripCharsIndex(_, _, _)
RStripCharsIndex(s, chars, j) ==
    IF j >= 1 /\ Contains(chars, Char(s, j)) THEN RStripCharsIndex(s, chars, j - 1) ELSE j

\* ------------------------------------------------------------------------
\* CharacterDisambiguator: context predicates
\* (word_index is 0-based, as in the source; context is the list of words)
\* ------------------------------------------------------------------------

\* context[k] for a 0-based k
At(context, k) == context[k + 1]

Min(a, b) == IF a < b THEN a ELSE b

Max(a, b) == IF a > b THEN a ELSE b

\* context[a:b] for 0 <= a
Slice(context, a, b) == SubSeq(context, a + 1, Min(b, Len(context)))

common_surnames ==
    {"smith", "johnson", "williams", "brown", "jones", "garcia", "miller",
     "davis", "rodriguez", "martinez", "hernandez", "lopez", "gonzalez",
     "wilson", "anderson", "thomas", "taylor", "moore", "jackson", "martin",
     "lee", "perez", "thompson", "white", "harris", "sanchez", "clark",
     "ramirez", "lewis", "robinson", "walker", "young", "allen", "king",
     "wright", "scott", "torres", "nguyen", "hill", "flores", "green",
     "adams", "nelson", "baker", "hall", "rivera", "campbell", "mitchell",
     "carter", "roberts", "gomez", "phillips", "evans", "turner", "diaz",
     "parker", "cruz", "edwards", "collins", "reyes", "stewart", "morris",
     "morales", "murphy", "cook", "rogers", "gutierrez", "ortiz", "morgan",
     "cooper", "peterson", "bailey", "reed", "kelly", "howard", "ramos",
     "kim", "cox", "ward", "richardson", "watson", "brooks", "chavez",
     "wood", "james", "bennett", "gray", "mendoza", "ruiz", "hughes",
     "price", "alvarez", "castillo", "sanders", "patel", "myers", "long",
     "ross", "foster", "jimenez", "gore"}

common_sentence_starters ==
    {"all", "also", "although", "always", "already", "almost", "alone"}

entity_indicators ==
    {"provides", "offers", "delivers", "focuses", "emphasizes",
     "cultivates", "seeks", "values", "maintains", "ensures",
     "specializes", "operates", "manages", "develops", "creates"}

entity_prepositions == {"at", "with", "for", "by", "from", "through"}

business_follow_words ==
    {"company", "corporation", "provides", "offers", "delivers", "focuses", "cultivates"}

model_indicators == {"model", "version", "code", "product", "system", "type"}

tech_context_words ==
    {"system", "model", "version", "code", "product", "solution",
     "platform", "service", "technology", "software", "hardware"}

pronoun_verbs == {"am", "was", "will", "have", "had", "can", "should", "would", "could"}

numeric_indicators == {"number", "code", "id", "phone", "fax", "suite", "street", "#"}

common_words ==
    {"welcome", "come", "some", "home", "time", "make", "take", "place",
     "people", "like", "life", "world", "great", "little", "old", "small",
     "large", "good", "new", "first", "last", "long", "right", "left",
     "high", "low", "big", "early", "late", "all", "also",
     "already", "almost", "alone", "although", "always"}

common_patterns == {"ing", "tion", "ed", "er", "ly", "al", "ic", "able", "ful"}

unusual_patterns == {"1l", "l1", "I1", "1I", "ll1", "1ll"}

\* the surname guard and the sentence-starter guard, then patterns 1 to 4
IsAlphanumericEntityContext(word, context, word_index) ==
    LET next_word == IF word_index + 1 < Len(context) THEN At(context, word_index + 1) ELSE ""
        surname_guard ==
            /\ next_word # ""
            /\ IsUpper(Char(next_word, 1))
            /\ Lower(next_word) \in common_surnames
        starter_guard == word_index = 0 /\ Lower(word) \in common_sentence_starters
        next_2_words ==
            IF word_index + 1 < Len(context)
            THEN Slice(context, word_index + 1, word_index + 3) ELSE <<>>
        next_words_text == Lower(Join(next_2_words, " "))
        pattern1 ==
            /\ Len(word) <= 3
            /\ \E indicator \in entity_indicators : Contains(next_words_text, indicator)
        prev_word ==
            IF word_index > 0 /\ word_index - 1 < Len(context)
            THEN At(context, word_index - 1) ELSE ""
        pattern2 ==
            /\ Lower(prev_word) \in entity_prepositions
            /\ Len(word) <= 4
            /\ \E k \in 1..Len(next_2_words) : Lower(next_2_words[k]) \in business_follow_words
        prev_words == Slice(context, Max(0, word_index - 2), word_index)
        prev_text == Lower(Join(prev_words, " "))
        pattern3 == \E indicator \in model_indicators : Contains(prev_text, indicator)
        surrounding_context == Slice(context, Max(0, word_index - 2), word_index + 3)
        context_text == Lower(Join(surrounding_context, " "))
        pattern4 ==
            /\ Len(word) <= 4
            /\ AnyUpper(word)
            /\ AnyLower(word)
            /\ \E tech_word \in tech_context_words : Contains(context_text, tech_word)
    IN  IF surname_guard THEN FALSE
        ELSE IF starter_guard THEN FALSE
        ELSE pattern1 \/ pattern2 \/ pattern3 \/ pattern4

IsPronounContext(context, word_index) ==
    IF word_index + 1 < Len(context)
    THEN LET next_words == Slice(context, word_index + 1, word_index + 3)
         IN  \E k \in 1..Len(next_words) : Lower(next_words[k]) \in pronoun_verbs
    ELSE FALSE

IsNumericContext(context) ==
    \E k \in 1..Len(context) :
        \E indicator \in numeric_indicators : Contains(Lower(context[k]), indicator)

IsLetterContext(context, word_index) ==
    LET prev_word ==
            IF word_index > 0 /\ word_index - 1 < Len(context)
            THEN At(context, word_index - 1) ELSE ""
        next_word == IF word_index + 1 < Len(context) THEN At(context, word_index + 1) ELSE ""
        prev_ends_alpha == prev_word # "" /\ IsAlpha(Char(prev_word, Len(prev_word)))
        next_starts_alpha == next_word # "" /\ IsAlpha(Char(next_word, 1))
    IN  prev_ends_alpha \/ next_starts_alpha


\* ------------------------------------------------------------------------
\* CharacterDisambiguator: the per-word rules
\* ------------------------------------------------------------------------

\* re.sub(r'[^\w]', '', word)
RECURSIVE RemoveNonWord(_)
RemoveNonWord(s) ==
    IF s = "" THEN ""
    ELSE (IF IsWordChar(Char(s, 1)) THEN Char(s, 1) ELSE "") \o RemoveNonWord(SubSeq(s, 2, Len(s)))

\* the tail taken one character early (an off-by-one in the slice)
PunctuationTail_OneEarly(word, clean_word) ==
    IF Len(word) > Len(clean_word) THEN SubSeq(word, Len(clean_word), Len(word)) ELSE ""

\* word[len(clean_word):] if len(word) > len(clean_word) else ""
PunctuationTail(word, clean_word) ==
    IF Len(word) > Len(clean_word) THEN SubSeq(word, Len(clean_word) + 1, Len(word)) ELSE ""

multi_char_corrections == {<<"Il", "11">>, <<"ll", "11">>, <<"Ol", "01">>, <<"lO", "10">>}

\* Rule 0
DisambiguateMultiCharPatterns(word, context, word_index) ==
    LET clean_word == RemoveNonWord(word)
        punctuation == PunctuationTail(word, clean_word)
    IN  IF /\ IsAlphanumericEntityContext(clean_word, context, word_index)
           /\ Len(clean_word) <= 4
           /\ EndsWith(clean_word, "l")
        THEN SubSeq(clean_word, 1, Len(clean_word) - 1) \o "1" \o punctuation
        ELSE IF (\E pr \in multi_char_corrections : clean_word = pr[1]) /\ IsNumericContext(context)
        THEN (CHOOSE pr \in multi_char_corrections : clean_word = pr[1])[2] \o punctuation
        ELSE word

\* Rule 1
DisambiguateAlphanumeric(word, context) ==
    IF AnyDigit(word) /\ ~AnyDigit(Join(context, ""))
    THEN word
    ELSE LET w1 == IF AnyDigit(word)
                   THEN LET a == ReplaceChar(ReplaceChar(word, "l", "1"), "L", "1")
                            b == IF Len(a) > 1 THEN ReplaceChar(a, "I", "1") ELSE a
                        IN  ReplaceChar(b, "O", "0")
                   ELSE word
             has_numeric_neighbors ==
                 \E k \in 1..Len(context) : context[k] # w1 /\ AnyDigit(context[k])
         IN  IF has_numeric_neighbors /\ Lower(w1) \in {"l", "i", "o"}
             THEN (IF Lower(w1) = "o" THEN "0" ELSE "1")
             ELSE w1

\* _score_word_likelihood, in tenths: the doubles 0.0 - 0.3 + 0.2 k - 0.4 m order
\* exactly as these integers when a word holds at most two common patterns
ScoreWordLikelihood(word) ==
    LET inner == SubSeq(word, 2, Len(word) - 1)
        isalnum == \A i \in 1..Len(word) : IsAlnum(Char(word, i))
        penalty == IF AnyDigit(inner) /\ ~isalnum THEN -3 ELSE 0
        lowered == Lower(word)
    IN  penalty
        + 2 * Cardinality({pt \in common_patterns : Contains(lowered, pt)})
        - 4 * Cardinality({pt \in unusual_patterns : Contains(word, pt)})

IsLikelyValidEnglishWord(word) ==
    LET lowered == Lower(word)
        chars == ".,!?;:\"()[]{}"
        clean_word == SubSeq(lowered, LStripCharsIndex(lowered, chars, 1),
                             RStripCharsIndex(lowered, chars, Len(lowered)))
    IN  clean_word \in common_words

\* the variations list of _prefer_english_word_formation, in order
Variations(word) ==
    LET isupper == AnyUpper(word) /\ ~AnyLower(word)
        islower == AnyLower(word) /\ ~AnyUpper(word)
        conservative == isupper \/ islower \/ Len(word) <= 3
        v_l == IF conservative /\ Contains(Lower(word), "l")
               THEN <<ReplaceChar(ReplaceChar(word, "l", "1"), "L", "1")>>
                    \o (IF Len(word) = 1
                        THEN <<ReplaceChar(ReplaceChar(word, "l", "I"), "L", "I")>> ELSE <<>>)
               ELSE <<>>
        v_1 == IF conservative /\ Contains(word, "1")
               THEN <<ReplaceChar(word, "1", "l")>>
                    \o (IF Len(word) = 1 THEN <<ReplaceChar(word, "1", "I")>> ELSE <<>>)
               ELSE <<>>
        v_I == IF conservative /\ Contains(word, "I") /\ Len(word) = 1
               THEN <<ReplaceChar(word, "I", "l"), ReplaceChar(word, "I", "1")>>
               ELSE <<>>
    IN  <<word>> \o v_l \o v_1 \o v_I

\* the scoring loop: a variation replaces the best only on a strictly greater score
RECURSIVE BestVariation(_, _, _, _)
BestVariation(variations, k, best_word, best_score) ==
    IF k > Len(variations) THEN best_word
    ELSE LET score == ScoreWordLikelihood(variations[k])
         IN  IF score > best_score
             THEN BestVariation(variations, k + 1, variations[k], score)
             ELSE BestVariation(variations, k + 1, best_word, best_score)

PreferEnglishWordFormation(word) ==
    IF ~(Contains(word, "l") \/ Contains(word, "1") \/ Contains(word, "I")) THEN word
    ELSE IF IsLikelyValidEnglishWord(word) THEN word
    ELSE BestVariation(Variations(word), 1, word, ScoreWordLikelihood(word))

\* Rule 2
DisambiguateLinguisticPatterns(word, context, word_index) ==
    LET char == Lower(word)
    IN  IF Len(word) = 1 /\ char \in {"l", "1"} /\ IsPronounContext(context, word_index) THEN "I"
        ELSE IF Len(word) = 1 /\ char \in {"l", "i"} /\ IsNumericContext(context) THEN "1"
        ELSE IF Len(word) = 1 /\ char \in {"1", "i"} /\ IsLetterContext(context, word_index) THEN "l"
        ELSE IF Len(word) > 1 THEN PreferEnglishWordFormation(word)
        ELSE word

\* Rule 3 without the sentence-start branch
DisambiguatePositional_NoSentenceStart(word, context, word_index) ==
    IF /\ Len(word) <= 3
       /\ Lower(word) \in {"l", "i"}
       /\ IsAlphanumericEntityContext(word, context, word_index)
    THEN "1"
    ELSE word

\* Rule 3
DisambiguatePositional(word, context, word_index) ==
    LET sentence_start ==
            \/ word_index = 0
            \/ /\ word_index > 0
               /\ Len(context) > word_index - 1
               /\ EndsWith(At(context, word_index - 1), ".")
    IN  IF sentence_start /\ Lower(word) \in {"l", "1"} /\ Len(word) = 1 THEN "I"
        ELSE IF /\ Len(word) <= 3
                /\ Lower(word) \in {"l", "i"}
                /\ IsAlphanumericEntityContext(word, context, word_index)
        THEN "1"
        ELSE word

HasDigitChange(corrected_word, word) == corrected_word # word /\ AnyDigit(corrected_word)

\* _disambiguate_word: rule 0, the early return, then rules 1, 2, 3
DisambiguateWord(word, context_words, word_index) ==
    LET r0 == DisambiguateMultiCharPatterns(word, context_words, word_index)
    IN  IF HasDigitChange(r0, word) THEN r0
        ELSE LET r1 == DisambiguateAlphanumeric(r0, context_words)
                 r2 == DisambiguateLinguisticPatterns(r1, context_words, word_index)
             IN  DisambiguatePositional(r2, context_words, word_index)

\* re.match(r'^(\W*)(.*?)(\W*)$', word).groups() for a word without whitespace:
\* the leading non-word run, the core up to the last word character, the rest
RECURSIVE NonWordRunEnd(_, _)
NonWordRunEnd(s, i) ==
    IF i <= Len(s) /\ ~IsWordChar(Char(s, i)) THEN NonWordRunEnd(s, i + 1) ELSE i

RECURSIVE LastWordCharIndex(_, _)
LastWordCharIndex(s, j) ==
    IF j >= 1 /\ ~IsWordChar(Char(s, j)) THEN LastWordCharIndex(s, j - 1) ELSE j

WordParts(word) ==
    LET p == NonWordRunEnd(word, 1)
        q == LastWordCharIndex(word, Len(word))
    IN  IF p > Len(word)
        THEN [prefix |-> word, core_word |-> "", suffix |-> ""]
        ELSE [prefix |-> SubSeq(word, 1, p - 1),
              core_word |-> SubSeq(word, p, q),
              suffix |-> SubSeq(word, q + 1, Len(word))]

\* the loop body of _intelligent_character_disambiguation for the word at index i:
\* the core handed to _disambiguate_word, its correction, and the word appended
CorrectedParts(words, i) ==
    LET parts == WordParts(At(words, i))
        corrected_core ==
            IF parts.core_word # "" THEN DisambiguateWord(parts.core_word, words, i) ELSE ""
    IN  [core_word |-> parts.core_word,
         corrected_core |-> corrected_core,
         corrected_word |-> IF parts.core_word # ""
                            THEN parts.prefix \o corrected_core \o parts.suffix
                            ELSE At(words, i)]

CorrectedWord(words, i) == CorrectedParts(words, i).corrected_word

\* the corrected words joined without a separator
JoinCorrected_NoSeparator(corrected_words) == Join(corrected_words, "")

JoinCorrected(corrected_words) == Join(corrected_words, " ")

IntelligentCharacterDisambiguation(text) ==
    IF text = "" THEN text
    ELSE LET words == Split(text)
         IN  IF words = <<>> THEN text
             ELSE JoinCorrected([k \in 1..Len(words) |-> CorrectedWord(words, k - 1)])

\* _context_aware_corrections: the disambiguator, then O -> 0 in digit-bearing words
ContextAwareCorrections(text) ==
    LET words == Split(IntelligentCharacterDisambiguation(text))
        corrected_word(word) ==
            IF Contains(word, "O") /\ AnyDigit(word) THEN ReplaceChar(word, "O", "0") ELSE word
    IN  Join([k \in 1..Len(words) |-> corrected_word(words[k])], " ")

\* ------------------------------------------------------------------------
\* TextPostProcessor
\* ------------------------------------------------------------------------

\* re.sub(r'(\w+)\s+-\s*(\w+)', r'\1-\2', text): leftmost, non-overlapping matches;
\* the scan resumes after the second word of a match
RECURSIVE FixHyphenSpacing(_, _)
FixHyphenSpacing(text, i) ==
    IF i > Len(text) THEN ""
    ELSE LET e1 == WordRunEnd(text, i)
             e2 == SpaceRunEnd(text, e1)
             e3 == SpaceRunEnd(text, e2 + 1)
             e4 == WordRunEnd(text, e3)
         IN  IF e1 > i /\ e2 > e1 /\ e2 <= Len(text) /\ Char(text, e2) = "-" /\ e4 > e3
             THEN SubSeq(text, i, e1 - 1) \o "-" \o SubSeq(text, e3, e4 - 1)
                  \o FixHyphenSpacing(text, e4)
             ELSE Char(text, i) \o FixHyphenSpacing(text, i + 1)

\* re.sub(r'\s+', ' ', text)
RECURSIVE CollapseWhitespace(_, _)
CollapseWhitespace(text, i) ==
    IF i > Len(text) THEN ""
    ELSE IF IsSpace(Char(text, i)) THEN " " \o CollapseWhitespace(text, SpaceRunEnd(text, i))
    ELSE Char(text, i) \o CollapseWhitespace(text, i + 1)

word_corrections ==
    << <<"environrnent", "environment">>,
       <<"developrnent", "development">>,
       <<"managernent", "management">>,
       <<"requirernents", "requirements">>,
       <<"experiénce", "experience">>,
       <<"cornpany", "company">>,
       <<"rnust", "must">>,
       <<"worI<", "work">>,
       <<"worlç", "work">>,
       <<"skílls", "skills">>,
       <<"leam", "team">>,
       <<"proíect", "project">>,
       <<"proiect", "project">> >>

\* the regex assertion \b between text[p-1] and text[p]
WordBoundary(text, p) ==
    (p - 1 >= 1 /\ IsWordChar(Char(text, p - 1))) # (p <= Len(text) /\ IsWordChar(Char(text, p)))

\* re.sub(r'\b' + re.escape(wrong) + r'\b', correct, text, flags=re.IGNORECASE)
RECURSIVE SubWholeWord(_, _, _, _)
SubWholeWord(text, i, wrong, correct) ==
    IF i > Len(text) THEN ""
    ELSE IF /\ i + Len(wrong) - 1 <= Len(text)
            /\ LowerChar(Char(text, i)) = LowerChar(Char(wrong, 1))
            /\ Lower(SubSeq(text, i, i + Len(wrong) - 1)) = Lower(wrong)
            /\ WordBoundary(text, i)
            /\ WordBoundary(text, i + Len(wrong))
         THEN correct \o SubWholeWord(text, i + Len(wrong), wrong, correct)
         ELSE Char(text, i) \o SubWholeWord(text, i + 1, wrong, correct)

\* the loop over word_corrections, in the dictionary's order
RECURSIVE FixCommonWordsFrom(_, _)
FixCommonWordsFrom(text, k) ==
    IF k > Len(word_corrections) THEN text
    ELSE FixCommonWordsFrom(
             SubWholeWord(text, 1, word_corrections[k][1], word_corrections[k][2]), k + 1)

FixCommonWords(text) == FixCommonWordsFrom(text, 1)

\* re.sub(r'\s+([,.;:!?])', r'\1', text)
RECURSIVE RemoveSpaceBeforePunctuation(_, _)
RemoveSpaceBeforePunctuation(text, i) ==
    IF i > Len(text) THEN ""
    ELSE LET e == SpaceRunEnd(text, i)
         IN  IF e > i /\ e <= Len(text) /\ Char(text, e) \in {",", ".", ";", ":", "!", "?"}
             THEN Char(text, e) \o RemoveSpaceBeforePunctuation(text, e + 1)
             ELSE Char(text, i) \o RemoveSpaceBeforePunctuation(text, i + 1)

\* re.sub(r'([.!?])([A-Z])', r'\1 \2', text)
RECURSIVE SpaceAfterTerminator(_, _)
SpaceAfterTerminator(text, i) ==
    IF i > Len(text) THEN ""
    ELSE IF Char(text, i) \in {".", "!", "?"} /\ i + 1 <= Len(text) /\ IsUpper(Char(text, i + 1))
         THEN Char(text, i) \o " " \o Char(text, i + 1) \o SpaceAfterTerminator(text, i + 2)
         ELSE Char(text, i) \o SpaceAfterTerminator(text, i + 1)

\* index of the first '"' at or after j, or 0
RECURSIVE NextQuote(_, _)
NextQuote(text, j) ==
    IF j > Len(text) THEN 0 ELSE IF Char(text, j) = "\"" THEN j ELSE NextQuote(text, j + 1)

\* re.sub(r'"\s*([^"]*?)\s*"', r'"\1"', text)
RECURSIVE FixQuotationMarks(_, _)
FixQuotationMarks(text, i) ==
    IF i > Len(text) THEN ""
    ELSE LET j == NextQuote(text, i + 1)
         IN  IF Char(text, i) = "\"" /\ j # 0
             THEN "\"" \o Strip(SubSeq(text, i + 1, j - 1)) \o "\"" \o FixQuotationMarks(text, j + 1)
             ELSE Char(text, i) \o FixQuotationMarks(text, i + 1)

CleanPunctuation(text) ==
    FixQuotationMarks(SpaceAfterTerminator(RemoveSpaceBeforePunctuation(text, 1), 1), 1)

\* post_process_text: passes 1 to 5, then strip()
PostProcessText(text) ==
    IF text = "" THEN text
    ELSE LET p1 == FixHyphenSpacing(text, 1)
             p2 == CollapseWhitespace(p1, 1)
             p3 == ContextAwareCorrections(p2)
             p4 == FixCommonWords(p3)
             p5 == CleanPunctuation(p4)
         IN  Strip(p5)

\* ------------------------------------------------------------------------
\* Confidences: exact rationals in lowest terms
\* ------------------------------------------------------------------------

RECURSIVE GCD(_, _)
GCD(a, b) == IF b = 0 THEN a ELSE GCD(b, a % b)

\* n / d for d > 0
Frac(n, d) == LET g == GCD(IF n < 0 THEN -n ELSE n, d) IN [num |-> n \div g, den |-> d \div g]

Zero == Frac(0, 1)

FracLess(a, b) == a.num * b.den < b.num * a.den

RECURSIVE SumSeq(_)
SumSeq(q) == IF q = <<>> THEN 0 ELSE Head(q) + SumSeq(Tail(q))

\* ------------------------------------------------------------------------
\* ConfidenceScorer
\* ocr_data is the backend's table: parallel lists text and conf (one entry
\* per token; conf is an integer, -1 for a non-text row); the geometry
\* columns left/top/width/height are not modelled
\* ------------------------------------------------------------------------

\* [int(conf) for conf in ocr_data['conf'] if int(conf) > 0]
\* a token counts as soon as its confidence is not negative
ValidConfidence_ZeroCounts(conf) == conf >= 0

ValidConfidence(conf) == conf > 0

\* _calculate_confidence
CalculateConfidence(ocr_data) ==
    LET confidences == SelectSeq(ocr_data.conf, ValidConfidence)
    IN  IF confidences # <<>>
        THEN Frac(SumSeq(confidences), Len(confidences) * 100)
        ELSE Zero

\* _extract_word_data: one token per row whose text is not blank
RECURSIVE ExtractWordDataFrom(_, _)
ExtractWordDataFrom(ocr_data, i) ==
    IF i > Len(ocr_data.text) THEN <<>>
    ELSE (IF Strip(ocr_data.text[i]) # ""
          THEN <<[text |-> ocr_data.text[i], confidence |-> Frac(ocr_data.conf[i], 100)]>>
          ELSE <<>>)
         \o ExtractWordDataFrom(ocr_data, i + 1)

ExtractWordData(ocr_data) == ExtractWordDataFrom(ocr_data, 1)

\* ------------------------------------------------------------------------
\* EngineAdapters
\* A backend call either raises or returns its output.  Token geometry
\* (bbox, left, top, width, height) is not modelled.
\* ------------------------------------------------------------------------

\* the page-segmentation configurations, in the order they are tried
psm_configs ==
    <<"--psm 6 -c tessedit_char_whitelist=0123456789ABCDEFGHIJKLMNOPQRSTUVWXYZabcdefghijklmnopqrstuvwxyz .,;:!?()-",
      "--psm 4 -c tessedit_char_whitelist=0123456789ABCDEFGHIJKLMNOPQRSTUVWXYZabcdefghijklmnopqrstuvwxyz .,;:!?()-",
      "--psm 3 -c tessedit_char_whitelist=0123456789ABCDEFGHIJKLMNOPQRSTUVWXYZabcdefghijklmnopqrstuvwxyz .,;:!?()-",
      "--psm 1 -c preserve_interword_spaces=1">>

\* best_result before the first attempt
TesseractInitialBest == [text |-> "", confidence |-> Zero, words |-> <<>>]

\* a later attempt of equal positive confidence replaces best_result
TesseractKeepBest_LastOnTies(best_result, outcome, config) ==
    LET confidence == CalculateConfidence(outcome.ocr_data)
        words == ExtractWordData(outcome.ocr_data)
    IN  IF FracLess(Zero, confidence) /\ ~FracLess(confidence, best_result.confidence)
        THEN [text |-> outcome.text, confidence |-> confidence, words |-> words, config |-> config]
        ELSE best_result

\* an attempt of confidence 0 replaces the initial best_result
TesseractKeepBest_ZeroReplaces(best_result, outcome, config) ==
    LET confidence == CalculateConfidence(outcome.ocr_data)
        words == ExtractWordData(outcome.ocr_data)
    IN  IF ~FracLess(confidence, best_result.confidence)
        THEN [text |-> outcome.text, confidence |-> confidence, words |-> words, config |-> config]
        ELSE best_result

\* one successful attempt: the attempt replaces best_result only on a strictly
\* greater confidence
TesseractKeepBest(best_result, outcome, config) ==
    LET confidence == CalculateConfidence(outcome.ocr_data)
        words == ExtractWordData(outcome.ocr_data)
    IN  IF FracLess(best_result.confidence, confidence)
        THEN [text |-> outcome.text, confidence |-> confidence, words |-> words, config |-> config]
        ELSE best_result

\* the value returned after the loop over psm_configs
TesseractResult(best_result) ==
    [text |-> IF best_result.text # "" THEN PostProcessText(best_result.text) ELSE best_result.text,
     confidence |-> best_result.confidence,
     method |-> "tesseract_advanced",
     words |-> best_result.words,
     config_used |-> IF "config" \in DOMAIN best_result THEN best_result.config ELSE "default"]

ErrorResult(method, error) ==
    [text |-> "", confidence |-> Zero, method |-> method, error |-> error]

\* full_text += text + " " over the backend's tokens
RECURSIVE FullText(_)
FullText(tokens) ==
    IF tokens = <<>> THEN "" ELSE Head(tokens).text \o " " \o FullText(Tail(tokens))

RECURSIVE TotalConfidence(_)
TotalConfidence(tokens) ==
    IF tokens = <<>> THEN Zero
    ELSE LET a == Head(tokens).confidence
             b == TotalConfidence(Tail(tokens))
         IN  Frac(a.num * b.den + b.num * a.den, a.den * b.den)

\* total_confidence / word_count if word_count > 0 else 0
AvgConfidence(tokens) ==
    IF Len(tokens) > 0
    THEN LET total == TotalConfidence(tokens) IN Frac(total.num, total.den * Len(tokens))
    ELSE Zero

\* extract_text_easyocr
ExtractTextEasyOCR(available, outcome) ==
    IF ~available THEN ErrorResult("easyocr", "EasyOCR not available")
    ELSE IF outcome.raises THEN ErrorResult("easyocr", outcome.error)
    ELSE [text |-> PostProcessText(Strip(FullText(outcome.tokens))),
          confidence |-> AvgConfidence(outcome.tokens),
          method |-> "easyocr",
          words |-> outcome.tokens]

\* extract_text_paddleocr
ExtractTextPaddleOCR(available, outcome) ==
    IF ~available THEN ErrorResult("paddleocr", "PaddleOCR not available")
    ELSE IF outcome.raises THEN ErrorResult("paddleocr", outcome.error)
    ELSE [text |-> PostProcessText(Strip(FullText(outcome.tokens))),
          confidence |-> AvgConfidence(outcome.tokens),
          method |-> "paddleocr",
          words |-> outcome.tokens]

\* ------------------------------------------------------------------------
\* ConsensusSelector
\* ------------------------------------------------------------------------

ConsensusThreshold == Frac(8, 10)

\* the empty-list result tagged as the primary engine's
NoEngineResult_PrimaryTag ==
    [text |-> "", confidence |-> Zero, method |-> "tesseract_advanced",
     error |-> "No OCR engines available"]

NoEngineResult ==
    [text |-> "", confidence |-> Zero, method |-> "none", error |-> "No OCR engines available"]

\* a scan that also replaces the best on an equal confidence (last-seen wins)
BetterConfidence_LastWins(candidate, best) == ~FracLess(candidate.confidence, best.confidence)

\* max(results, key=confidence): the scan keeps the element seen first among equals
BetterConfidence(candidate, best) == FracLess(best.confidence, candidate.confidence)

RECURSIVE BestIndexFrom(_, _, _)
BestIndexFrom(results, k, best) ==
    IF k > Len(results) THEN best
    ELSE IF BetterConfidence(results[k], results[best]) THEN BestIndexFrom(results, k + 1, k)
    ELSE BestIndexFrom(results, k + 1, best)

BestIndex(results) == BestIndexFrom(results, 2, 1)

\* a score that leaves the text length out
ConsensusScore_IgnoresLength(result) == result.confidence

\* confidence * (len(text) / 1000)
ConsensusScore(result) == Frac(result.confidence.num * Len(result.text), result.confidence.den * 1000)

HasText(result) == result.text # ""

\* the scoring loop of _create_consensus_text: candidates without text are skipped and a
\* candidate replaces best_text only on a strictly greater score
RECURSIVE ConsensusLoop(_, _, _, _)
ConsensusLoop(results, k, best_score, best_text) ==
    IF k > Len(results) THEN best_text
    ELSE IF HasText(results[k]) /\ FracLess(best_score, ConsensusScore(results[k]))
    THEN ConsensusLoop(results, k + 1, ConsensusScore(results[k]), results[k].text)
    ELSE ConsensusLoop(results, k + 1, best_score, best_text)

\* _create_consensus_text
CreateConsensusText(results) ==
    IF Len(results) < 2 THEN (IF results # <<>> THEN results[1].text ELSE "")
    ELSE LET texts == SelectSeq(results, HasText)
         IN  IF texts = <<>> THEN ""
             ELSE ConsensusLoop(results, 1, Zero, texts[1].text)

ConsensusAttempted(results) ==
    FracLess(results[BestIndex(results)].confidence, ConsensusThreshold) /\ Len(results) > 1

\* the tail without the "if consensus_text" guard
SelectResult_Unguarded(results) ==
    IF results = <<>> THEN [results |-> results, returned |-> NoEngineResult]
    ELSE LET b == BestIndex(results)
             consensus_text == CreateConsensusText(results)
         IN  IF ConsensusAttempted(results)
             THEN LET written == [results EXCEPT ![b].text = consensus_text,
                                                 ![b].method = "consensus"]
                  IN  [results |-> written, returned |-> written[b]]
             ELSE [results |-> results, returned |-> results[b]]

\* the consensus result takes the confidence and words of the engine whose text won
SelectResult_TextEngine(results) ==
    IF results = <<>> THEN [results |-> results, returned |-> NoEngineResult]
    ELSE LET b == BestIndex(results)
             consensus_text == CreateConsensusText(results)
         IN  IF ConsensusAttempted(results) /\ consensus_text # ""
             THEN LET t == CHOOSE i \in 1..Len(results) : results[i].text = consensus_text
                      written == [results EXCEPT ![t].method = "consensus"]
                  IN  [results |-> written, returned |-> written[t]]
             ELSE [results |-> results, returned |-> results[b]]

\* the tail of extract_text_multi_engine: best_result aliases an element of results, so
\* the consensus text and tag are written into that element
SelectResult(results) ==
    IF results = <<>> THEN [results |-> results, returned |-> NoEngineResult]
    ELSE LET b == BestIndex(results)
             consensus_text == CreateConsensusText(results)
         IN  IF ConsensusAttempted(results) /\ consensus_text # ""
             THEN LET written == [results EXCEPT ![b].text = consensus_text,
                                                 ![b].method = "consensus"]
                  IN  [results |-> written, returned |-> written[b]]
             ELSE [results |-> results, returned |-> results[b]]

\* ------------------------------------------------------------------------
\* Bounds and the inputs drawn within them
\* ------------------------------------------------------------------------

\* rows of a backend table handed to the confidence scorer
MaxTokens == 3

\* words of a text handed to the disambiguator
MaxWords == 3

\* words of a text handed to the post-processor
MaxPostWords == 3

\* pages of a PDF
MaxPages == 3

\* self.retry(exc=e, countdown=60, max_retries=3)
max_retries == 3

\* token confidences as the primary backend reports them: -1 .. 100
\* the tables an image_to_data call can return: up to MaxTokens rows
OcrTables ==
    LET token_rows == {[text |-> t, conf |-> c] : t \in {"", "ab"}, c \in {-1, 0, 1, 50, 100}}
        row_seqs == UNION {[1..n -> token_rows] : n \in 0..MaxTokens}
    IN  {[text |-> [i \in 1..Len(rows) |-> rows[i].text],
          conf |-> [i \in 1..Len(rows) |-> rows[i].conf]] : rows \in row_seqs}

\* texts of 1..n words of vocab, joined by one of seps
RECURSIVE TextsOfWords(_, _, _)
TextsOfWords(vocab, seps, n) ==
    IF n = 1 THEN vocab
    ELSE {t \o sep \o w : t \in TextsOfWords(vocab, seps, n - 1), sep \in seps, w \in vocab}

TextsUpTo(vocab, seps, n) == UNION {TextsOfWords(vocab, seps, k) : k \in 1..n}

\* texts of up to MaxWords words: ambiguous words with and without punctuation
\* and entity/numeric markers, and texts with a digit-bearing word, a surname,
\* a token that ends a sentence and a common English word
DisambiguatorTexts ==
    {"", " "}
        \cup TextsUpTo({"l", "1", "Al", "Il", "A-l", "(l)", "-", "Model", "code", "am"},
                        {" "}, MaxWords)
        \cup TextsUpTo({"l", "1", "Il", "Al2", "Garcia", "x.", "code", "am", "all"},
                        {" "}, MaxWords)

PostTexts ==
    {"", " "}
        \cup TextsUpTo({"a", "Il", "code", "leam"}, {" ", " -", " . ", " \" "}, MaxPostWords)

\* what one page-segmentation attempt can get back from the primary backend:
\* the table of image_to_data and the string of image_to_string
PsmOutputs ==
    {[ocr_data |-> [text |-> <<"Al", "Garcia">>, conf |-> <<96, 90>>], text |-> "Al Garcia\n"],
     [ocr_data |-> [text |-> <<" ">>, conf |-> <<95>>], text |-> " \n"],
     [ocr_data |-> [text |-> <<"", "l">>, conf |-> <<-1, 0>>], text |-> "l\n"],
     [ocr_data |-> [text |-> <<"code", "l">>, conf |-> <<70, 40>>], text |-> "code l\n"],
     [ocr_data |-> [text |-> <<"x">>, conf |-> <<60>>], text |-> ""],
     [ocr_data |-> [text |-> <<>>, conf |-> <<>>], text |-> ""]}

\* what a single-pass backend can get back: a list of (text, confidence) tokens
TokenOutputs ==
    {[raises |-> FALSE, tokens |-> <<>>],
     [raises |-> FALSE, tokens |-> <<[text |-> "", confidence |-> Frac(9, 10)]>>],
     [raises |-> FALSE, tokens |-> <<[text |-> "Al Garcia", confidence |-> Frac(95, 100)]>>],
     [raises |-> FALSE, tokens |-> <<[text |-> "code", confidence |-> Frac(5, 10)],
                                     [text |-> "l", confidence |-> Frac(7, 10)]>>],
     [raises |-> FALSE, tokens |-> <<[text |-> "abc", confidence |-> Zero]>>],
     [raises |-> FALSE, tokens |-> <<[text |-> "Al Garcia", confidence |-> Frac(4, 10)]>>]}

BackendOutcomes == TokenOutputs \cup {[raises |-> TRUE, error |-> "backend error"]}

\* ------------------------------------------------------------------------
\* State
\* ------------------------------------------------------------------------

VARIABLES
    engines,          \* self.engines
    pc,               \* position in extract_text_multi_engine
    config_index,     \* position in the loop over psm_configs (1-based)
    best_result,      \* best_result of extract_text_tesseract_advanced
    psm_raised,       \* page-segmentation attempts of this call that raised
    attempts,         \* what each page-segmentation attempt of the running loop computed
    failed,           \* engines whose recognition failed in this call
    results,          \* results of extract_text_multi_engine
    returned,         \* its return value
    ocr_data,         \* argument of _calculate_confidence / _extract_word_data
    confidence,       \* result of _calculate_confidence
    words,            \* result of _extract_word_data
    scorer_pc,
    text,             \* argument of the disambiguator / of post_process_text
    context_words,    \* words of _intelligent_character_disambiguation
    word_index,       \* its loop index i (0-based)
    corrected_words,  \* its accumulator
    core_word,        \* core handed to the last _disambiguate_word call
    corrected_core,   \* what that call returned
    disambiguated,    \* result of _intelligent_character_disambiguation
    dis_pc,
    processed_text,   \* post_process_text(text)
    reprocessed_text, \* post_process_text(processed_text)
    post_pc,
    image,            \* argument of enhance_image_for_ocr
    aggressive,       \* its flag
    gray,             \* its working image, gray and later enhanced_image
    enhance_failed,   \* a preprocessing step of this call raised
    enhance_result,   \* its outcome
    enhance_pc,       \* its position: in the try block, or returned
    argument,         \* a value of any type handed to a post-processing stage
    call_outcome,     \* what the stage did: the value returned or the exception raised
    call_pc,
    task,             \* a document-processing task: its queue and its document
    progress,         \* the progress value a status query of the task shows
    position,         \* progress reports made by the current execution
    retries,          \* self.request.retries of a Celery task
    status,           \* the status a status query of the task shows
    task_result,      \* the result a status query shows: "None" or "result"
    task_error,       \* the error a status query shows: "None" or "message"
    service_result,   \* the local result: "none", "result" or "error" (has an 'error' key)
    ended,            \* how the current execution ended: "no", "returned" or "raised"
    task_pc

ocr_vars == <<engines, pc, config_index, best_result, psm_raised, attempts, failed, results, returned>>

scorer_vars == <<ocr_data, confidence, words, scorer_pc>>

dis_vars == <<context_words, word_index, corrected_words, core_word, corrected_core,
              disambiguated, dis_pc>>

post_vars == <<processed_text, reprocessed_text, post_pc>>

enhance_vars == <<image, aggressive, gray, enhance_failed, enhance_result, enhance_pc>>

call_vars == <<argument, call_outcome, call_pc>>

task_vars == <<task, progress, position, retries, status, task_result, task_error,
               service_result, ended, task_pc>>

vars == <<ocr_vars, scorer_vars, text, dis_vars, post_vars, enhance_vars, call_vars, task_vars>>

Pending == [text |-> "", confidence |-> Zero, method |-> "pending"]

OcrIdle ==
    /\ pc = "idle"
    /\ engines = [tesseract |-> TRUE, easyocr |-> FALSE, paddleocr |-> FALSE]
    /\ config_index = 1
    /\ best_result = TesseractInitialBest
    /\ psm_raised = 0
    /\ attempts = <<>>
    /\ failed = {}
    /\ results = <<>>
    /\ returned = Pending

ScorerIdle ==
    /\ scorer_pc = "idle"
    /\ ocr_data = [text |-> <<>>, conf |-> <<>>]
    /\ confidence = Zero
    /\ words = <<>>

DisIdle ==
    /\ dis_pc = "idle"
    /\ context_words = <<>>
    /\ word_index = 0
    /\ corrected_words = <<>>
    /\ core_word = ""
    /\ corrected_core = ""
    /\ disambiguated = ""

PostIdle ==
    /\ post_pc = "idle"
    /\ processed_text = ""
    /\ reprocessed_text = ""

EnhanceIdle ==
    /\ enhance_pc = "idle"
    /\ image = [object |-> "image", mode |-> "L", width |-> 1, height |-> 1, steps |-> 0]
    /\ aggressive = TRUE
    /\ gray = image
    /\ enhance_failed = FALSE
    /\ enhance_result = [raises |-> FALSE, value |-> image]

CallIdle ==
    /\ call_pc = "idle"
    /\ argument = [type |-> "str", value |-> ""]
    /\ call_outcome = [raises |-> FALSE, value |-> argument]

TaskIdle ==
    /\ task_pc = "idle"
    /\ task = [queue |-> "memory", file_type |-> "image", ai_initialized |-> TRUE,
               ai_applied |-> FALSE, total_pages |-> 0]
    /\ progress = 0
    /\ position = 0
    /\ retries = 0
    /\ status = "pending"
    /\ task_result = "None"
    /\ task_error = "None"
    /\ service_result = "none"
    /\ ended = "no"

\* ------------------------------------------------------------------------
\* extract_text_multi_engine, one action per engine step
\* ------------------------------------------------------------------------

OcrStart(registries) ==
    /\ engines \in registries
    /\ pc = "call_tesseract"
    /\ config_index = 1
    /\ best_result = TesseractInitialBest
    /\ psm_raised = 0
    /\ attempts = <<>>
    /\ failed = {}
    /\ results = <<>>
    /\ returned = Pending

\* engines after _initialize_engines: tesseract is always registered
Init ==
    /\ OcrStart({[tesseract |-> TRUE, easyocr |-> e, paddleocr |-> p] : e \in BOOLEAN, p \in BOOLEAN})
    /\ ScorerIdle /\ text = "" /\ DisIdle /\ PostIdle /\ EnhanceIdle /\ CallIdle /\ TaskIdle

\* engines as any registry a caller may install
InitAnyRegistry ==
    /\ OcrStart([{"tesseract", "easyocr", "paddleocr"} -> BOOLEAN])
    /\ ScorerIdle /\ text = "" /\ DisIdle /\ PostIdle /\ EnhanceIdle /\ CallIdle /\ TaskIdle

OcrFrame == UNCHANGED <<scorer_vars, text, dis_vars, post_vars, enhance_vars, call_vars, task_vars>>

TesseractBegin ==
    /\ pc = "call_tesseract"
    /\ engines.tesseract
    /\ pc' = "psm_loop"
    /\ config_index' = 1
    /\ best_result' = TesseractInitialBest
    /\ UNCHANGED <<engines, psm_raised, attempts, failed, results, returned>>
    /\ OcrFrame

TesseractSkip ==
    /\ pc = "call_tesseract"
    /\ ~engines.tesseract
    /\ pc' = "call_easyocr"
    /\ UNCHANGED <<engines, config_index, best_result, psm_raised, attempts, failed, results, returned>>
    /\ OcrFrame

PsmAttemptReturns ==
    /\ pc = "psm_loop"
    /\ config_index <= Len(psm_configs)
    /\ \E outcome \in PsmOutputs :
           /\ best_result' = TesseractKeepBest(best_result, outcome, psm_configs[config_index])
           /\ attempts' = Append(attempts, [raised |-> FALSE,
                                            text |-> outcome.text,
                                            confidence |-> CalculateConfidence(outcome.ocr_data),
                                            words |-> ExtractWordData(outcome.ocr_data)])
    /\ config_index' = config_index + 1
    /\ UNCHANGED <<engines, pc, psm_raised, failed, results, returned>>
    /\ OcrFrame

PsmAttemptRaises ==
    /\ pc = "psm_loop"
    /\ config_index <= Len(psm_configs)
    /\ psm_raised' = psm_raised + 1
    /\ attempts' = Append(attempts, [raised |-> TRUE, text |-> "", confidence |-> Zero, words |-> <<>>])
    /\ config_index' = config_index + 1
    /\ UNCHANGED <<engines, pc, best_result, failed, results, returned>>
    /\ OcrFrame

TesseractReturn ==
    /\ pc = "psm_loop"
    /\ config_index > Len(psm_configs)
    /\ results' = Append(results, TesseractResult(best_result))
    /\ failed' = IF psm_raised = Len(psm_configs) THEN failed \cup {"tesseract"} ELSE failed
    /\ attempts' = <<>>
    /\ pc' = "call_easyocr"
    /\ UNCHANGED <<engines, config_index, best_result, psm_raised, returned>>
    /\ OcrFrame

EasyOCRCall ==
    /\ pc = "call_easyocr"
    /\ engines.easyocr
    /\ \E outcome \in BackendOutcomes :
           /\ results' = Append(results, ExtractTextEasyOCR(engines.easyocr, outcome))
           /\ failed' = IF outcome.raises THEN failed \cup {"easyocr"} ELSE failed
    /\ pc' = "call_paddleocr"
    /\ UNCHANGED <<engines, config_index, best_result, psm_raised, attempts, returned>>
    /\ OcrFrame

EasyOCRSkip ==
    /\ pc = "call_easyocr"
    /\ ~engines.easyocr
    /\ pc' = "call_paddleocr"
    /\ UNCHANGED <<engines, config_index, best_result, psm_raised, attempts, failed, results, returned>>
    /\ OcrFrame

PaddleOCRCall ==
    /\ pc = "call_paddleocr"
    /\ engines.paddleocr
    /\ \E outcome \in BackendOutcomes :
           /\ results' = Append(results, ExtractTextPaddleOCR(engines.paddleocr, outcome))
           /\ failed' = IF outcome.raises THEN failed \cup {"paddleocr"} ELSE failed
    /\ pc' = "select"
    /\ UNCHANGED <<engines, config_index, best_result, psm_raised, attempts, returned>>
    /\ OcrFrame

PaddleOCRSkip ==
    /\ pc = "call_paddleocr"
    /\ ~engines.paddleocr
    /\ pc' = "select"
    /\ UNCHANGED <<engines, config_index, best_result, psm_raised, attempts, failed, results, returned>>
    /\ OcrFrame

Select ==
    /\ pc = "select"
    /\ results' = SelectResult(results).results
    /\ returned' = SelectResult(results).returned
    /\ pc' = "done"
    /\ UNCHANGED <<engines, config_index, best_result, psm_raised, attempts, failed>>
    /\ OcrFrame

Next ==
    \/ TesseractBegin
    \/ PsmAttemptReturns
    \/ PsmAttemptRaises
    \/ TesseractReturn
    \/ EasyOCRCall
    \/ EasyOCRSkip
    \/ PaddleOCRCall
    \/ PaddleOCRSkip
    \/ Select

Spec == Init /\ [][Next]_vars

SpecAnyRegistry == InitAnyRegistry /\ [][Next \/ TesseractSkip]_vars


\* ------------------------------------------------------------------------
\* The confidence scorer applied to one backend table
\* (lines 169 and 172 of one page-segmentation attempt)
\* ------------------------------------------------------------------------

InitScorer ==
    /\ OcrIdle
    /\ ocr_data \in OcrTables
    /\ scorer_pc = "input"
    /\ confidence = Zero
    /\ words = <<>>
    /\ text = ""
    /\ DisIdle
    /\ PostIdle
    /\ EnhanceIdle
    /\ CallIdle
    /\ TaskIdle

ScoreAttempt ==
    /\ scorer_pc = "input"
    /\ confidence' = CalculateConfidence(ocr_data)
    /\ words' = ExtractWordData(ocr_data)
    /\ scorer_pc' = "scored"
    /\ UNCHANGED <<ocr_vars, ocr_data, text, dis_vars, post_vars, enhance_vars, call_vars, task_vars>>

SpecScorer == InitScorer /\ [][ScoreAttempt]_vars

\* ------------------------------------------------------------------------
\* _intelligent_character_disambiguation, one action per loop iteration
\* ------------------------------------------------------------------------

InitDisambiguator ==
    /\ OcrIdle
    /\ ScorerIdle
    /\ text \in DisambiguatorTexts
    /\ dis_pc = "input"
    /\ context_words = <<>>
    /\ word_index = 0
    /\ corrected_words = <<>>
    /\ core_word = ""
    /\ corrected_core = ""
    /\ disambiguated = ""
    /\ PostIdle
    /\ EnhanceIdle
    /\ CallIdle
    /\ TaskIdle

DisFrame == UNCHANGED <<ocr_vars, scorer_vars, text, post_vars, enhance_vars, call_vars, task_vars>>

\* the two early returns, else words = text.split()
DisambiguateBegin ==
    /\ dis_pc = "input"
    /\ IF text = "" \/ Split(text) = <<>>
       THEN /\ disambiguated' = text
            /\ dis_pc' = "done"
            /\ UNCHANGED context_words
       ELSE /\ context_words' = Split(text)
            /\ dis_pc' = "loop"
            /\ UNCHANGED disambiguated
    /\ UNCHANGED <<word_index, corrected_words, core_word, corrected_core>>
    /\ DisFrame

DisambiguateNextWord ==
    /\ dis_pc = "loop"
    /\ word_index < Len(context_words)
    /\ LET step == CorrectedParts(context_words, word_index)
       IN  /\ core_word' = step.core_word
           /\ corrected_core' = step.corrected_core
           /\ corrected_words' = Append(corrected_words, step.corrected_word)
    /\ word_index' = word_index + 1
    /\ UNCHANGED <<context_words, disambiguated, dis_pc>>
    /\ DisFrame

DisambiguateJoin ==
    /\ dis_pc = "loop"
    /\ word_index = Len(context_words)
    /\ disambiguated' = JoinCorrected(corrected_words)
    /\ dis_pc' = "done"
    /\ UNCHANGED <<context_words, word_index, corrected_words, core_word, corrected_core>>
    /\ DisFrame

SpecDisambiguator ==
    InitDisambiguator /\ [][DisambiguateBegin \/ DisambiguateNextWord \/ DisambiguateJoin]_vars

\* ------------------------------------------------------------------------
\* post_process_text applied to a text, and again to its own output
\* ------------------------------------------------------------------------

InitPost ==
    /\ OcrIdle
    /\ ScorerIdle
    /\ text \in PostTexts
    /\ DisIdle
    /\ post_pc = "input"
    /\ processed_text = ""
    /\ reprocessed_text = ""
    /\ EnhanceIdle
    /\ CallIdle
    /\ TaskIdle

PostProcess ==
    /\ post_pc = "input"
    /\ processed_text' = PostProcessText(text)
    /\ post_pc' = "processed"
    /\ UNCHANGED <<ocr_vars, scorer_vars, text, dis_vars, reprocessed_text, enhance_vars, call_vars, task_vars>>

PostProcessAgain ==
    /\ post_pc = "processed"
    /\ reprocessed_text' = PostProcessText(processed_text)
    /\ post_pc' = "reprocessed"
    /\ UNCHANGED <<ocr_vars, scorer_vars, text, dis_vars, processed_text, enhance_vars, call_vars, task_vars>>

SpecPost == InitPost /\ [][PostProcess \/ PostProcessAgain]_vars

\* ------------------------------------------------------------------------
\* enhance_image_for_ocr, one action per preprocessing step
\* An image is its object, mode and size; steps counts the preprocessing
\* steps applied to it, so the next call of the try block is number steps + 1.
\* The pixel values are not modelled.
\* ------------------------------------------------------------------------

\* widths and heights of the input image
ImageSides == {1, 300, 400, 500, 501, 750, 751, 999, 1000, 1500, 2000}

\* the calls of the try block before the scaling, in order
EnhanceSteps(mode, aggressive_flag) ==
    <<"np.array">>
        \o (IF mode = "RGB" THEN <<"cv2.cvtColor">> ELSE <<"copy">>)
        \o <<"cv2.bilateralFilter", "clahe.apply", "cv2.morphologyEx">>
        \o (IF aggressive_flag
            THEN <<"cv2.threshold", "cv2.adaptiveThreshold", "cv2.adaptiveThreshold",
                   "cv2.bitwise_and", "cv2.bitwise_or">>
            ELSE <<"cv2.adaptiveThreshold">>)
        \o <<"cv2.dilate", "cv2.connectedComponentsWithStats", "Image.fromarray",
             "ImageFilter.SHARPEN", "ImageEnhance.Contrast">>

ScaleFactor_Unfloored(width, height) == 1500 \div Max(width, height)

ScaleFactor_Double(width, height) == 2

\* scale_factor = max(2, 1500 // max(width, height))
ScaleFactor(width, height) == Max(2, 1500 \div Max(width, height))

EnhanceFailure_Partial(input, working) == [raises |-> FALSE, value |-> working]

\* except Exception: return image
EnhanceFailure(input, working) == [raises |-> FALSE, value |-> input]

InitEnhance ==
    /\ OcrIdle
    /\ ScorerIdle
    /\ text = ""
    /\ DisIdle
    /\ PostIdle
    /\ CallIdle
    /\ TaskIdle
    /\ image \in {[object |-> "image", mode |-> m, width |-> w, height |-> h, steps |-> 0] :
                      m \in {"RGB", "L"}, w \in ImageSides, h \in ImageSides}
    /\ aggressive \in BOOLEAN
    /\ gray = image
    /\ enhance_failed = FALSE
    /\ enhance_result = [raises |-> FALSE, value |-> image]
    /\ enhance_pc = "try"

EnhanceFrame ==
    UNCHANGED <<ocr_vars, scorer_vars, text, dis_vars, post_vars, call_vars, task_vars, image, aggressive>>

\* one call of the try block returns: the working image is a new object of the
\* same size
EnhanceStep ==
    /\ enhance_pc = "try"
    /\ gray.steps < Len(EnhanceSteps(image.mode, aggressive))
    /\ gray' = [gray EXCEPT !.object = "enhanced_image", !.steps = @ + 1]
    /\ UNCHANGED <<enhance_failed, enhance_result, enhance_pc>>
    /\ EnhanceFrame

\* one call of the try block, the scaling included, raises: the handler returns
EnhanceStepRaises ==
    /\ enhance_pc = "try"
    /\ enhance_failed' = TRUE
    /\ enhance_result' = EnhanceFailure(image, gray)
    /\ enhance_pc' = "returned"
    /\ UNCHANGED gray
    /\ EnhanceFrame

\* the scaling of a small image, and return enhanced_image
EnhanceScale ==
    /\ enhance_pc = "try"
    /\ gray.steps = Len(EnhanceSteps(image.mode, aggressive))
    /\ LET width == gray.width
           height == gray.height
           enhanced_image ==
               IF width < 1000 \/ height < 1000
               THEN [gray EXCEPT !.width = width * ScaleFactor(width, height),
                                 !.height = height * ScaleFactor(width, height),
                                 !.steps = @ + 1]
               ELSE gray
       IN  /\ gray' = enhanced_image
           /\ enhance_result' = [raises |-> FALSE, value |-> enhanced_image]
    /\ enhance_pc' = "returned"
    /\ UNCHANGED enhance_failed
    /\ EnhanceFrame

SpecEnhance == InitEnhance /\ [][EnhanceStep \/ EnhanceStepRaises \/ EnhanceScale]_vars

\* ------------------------------------------------------------------------
\* The post-processing stages called with a value of any type
\* A value is its type and its repr: the str 'Il code', the bytes b'Il code',
\* the int 12, None. An outcome is a returned value or a raised exception.
\* ------------------------------------------------------------------------

PostArguments ==
    {[type |-> "str", value |-> t] : t \in PostTexts}
        \cup {[type |-> "bytes", value |-> ""], [type |-> "bytes", value |-> "Il code"],
              [type |-> "int", value |-> "0"], [type |-> "int", value |-> "12"],
              [type |-> "NoneType", value |-> "None"]}

\* bool(value)
Truthy(value) ==
    CASE value.type \in {"str", "bytes"} -> value.value # ""
      [] value.type = "int" -> value.value # "0"
      [] OTHER -> FALSE

\* post_process_text: the early return, then the first re.sub, which accepts
\* only a str; nothing in the function catches what a step raises
PostProcessTextCall(value) ==
    IF ~Truthy(value) THEN [raises |-> FALSE, value |-> value]
    ELSE IF value.type # "str"
    THEN [raises |-> TRUE, value |-> [type |-> "TypeError", value |-> "re.sub"]]
    ELSE [raises |-> FALSE, value |-> [type |-> "str", value |-> PostProcessText(value.value)]]

\* _intelligent_character_disambiguation: the guard returns what is not a
\* non-empty str
DisambiguationCall(value) ==
    IF ~Truthy(value) \/ value.type # "str" THEN [raises |-> FALSE, value |-> value]
    ELSE [raises |-> FALSE,
          value |-> [type |-> "str", value |-> IntelligentCharacterDisambiguation(value.value)]]

InitCalls ==
    /\ OcrIdle
    /\ ScorerIdle
    /\ text = ""
    /\ DisIdle
    /\ PostIdle
    /\ EnhanceIdle
    /\ TaskIdle
    /\ argument \in PostArguments
    /\ call_outcome = [raises |-> FALSE, value |-> argument]
    /\ call_pc = "input"

CallPostProcess ==
    /\ call_pc = "input"
    /\ call_outcome' = PostProcessTextCall(argument)
    /\ call_pc' = "post_process_text"
    /\ UNCHANGED <<ocr_vars, scorer_vars, text, dis_vars, post_vars, enhance_vars, task_vars,
                   argument>>

CallDisambiguation ==
    /\ call_pc = "input"
    /\ call_outcome' = DisambiguationCall(argument)
    /\ call_pc' = "_intelligent_character_disambiguation"
    /\ UNCHANGED <<ocr_vars, scorer_vars, text, dis_vars, post_vars, enhance_vars, task_vars,
                   argument>>

SpecCalls == InitCalls /\ [][CallPostProcess \/ CallDisambiguation]_vars

\* ------------------------------------------------------------------------
\* Progress of one document-processing task, one action per progress report
\* The task runs in the in-memory queue (TaskQueue._process_document) or as a
\* Celery task (process_document_task); both hand a callback to PDFService.
\* ------------------------------------------------------------------------

\* the service ends its callbacks with 100 instead of 95
ServiceReports_UpTo100(file_type, ai_applied, total_pages) ==
    LET page_progress(i) == 20 + (i * 20) \div total_pages
        ocr == [k \in 1..total_pages |-> 40 + (page_progress(k - 1) * 3) \div 10]
        ai == IF ai_applied THEN <<80, 90>> ELSE <<90>>
    IN  CASE file_type = "pdf" -> <<20, 40>> \o ocr \o <<70, 75>> \o ai \o <<100>>
          [] file_type = "image" -> <<20, 70, 75>> \o ai \o <<100>>
          [] OTHER -> <<>>

\* the values process_pdf_with_ai / process_image_with_ai pass to
\* progress_callback; page i of n reports int(20 + (i / n) * 20) to the lambda
\* that maps p to 40 + int(p * 0.3)
ServiceReports(file_type, ai_applied, total_pages) ==
    LET page_progress(i) == 20 + (i * 20) \div total_pages
        ocr == [k \in 1..total_pages |-> 40 + (page_progress(k - 1) * 3) \div 10]
        ai == IF ai_applied THEN <<80, 90>> ELSE <<90>>
    IN  CASE file_type = "pdf" -> <<20, 40>> \o ocr \o <<70, 75>> \o ai \o <<95>>
          [] file_type = "image" -> <<20, 70, 75>> \o ai \o <<95>>
          [] OTHER -> <<>>

\* the values one execution hands to the status record, in order: before the
\* service call, by the callback during it, and after it returned
TaskReports(t) ==
    LET service == ServiceReports(t.file_type, t.ai_applied, t.total_pages)
    IN  IF t.queue = "memory"
        THEN [prefix |-> <<5>> \o (IF t.ai_initialized THEN <<>> ELSE <<8>>) \o <<15>>,
              service |-> service,
              suffix |-> IF t.file_type = "other" THEN <<>> ELSE <<95, 100>>]
        ELSE [prefix |-> <<0, 5, 10, 20>>,
              service |-> [k \in 1..Len(service) |-> 20 + (service[k] * 75) \div 100],
              suffix |-> IF t.file_type = "other" THEN <<>> ELSE <<100>>]

InitTasks ==
    /\ OcrIdle
    /\ ScorerIdle
    /\ text = ""
    /\ DisIdle
    /\ PostIdle
    /\ EnhanceIdle
    /\ CallIdle
    /\ task \in [queue : {"memory", "celery"}, file_type : {"pdf", "image", "other"},
                  ai_initialized : BOOLEAN, ai_applied : BOOLEAN, total_pages : 0..MaxPages]
    /\ progress = 0
    /\ position = 0
    /\ retries = 0
    /\ status = "pending"
    /\ task_result = "None"
    /\ task_error = "None"
    /\ service_result = "none"
    /\ ended = "no"
    /\ task_pc = "running"

TaskFrame ==
    UNCHANGED <<ocr_vars, scorer_vars, text, dis_vars, post_vars, enhance_vars, call_vars, task>>

\* the next progress report of the execution: min(progress, 100) is stored,
\* together with the status and outcome written in the same step; the last
\* report of the service call is followed by its return
Report ==
    /\ task_pc = "running"
    /\ LET reports == TaskReports(task).prefix \o TaskReports(task).service
                          \o TaskReports(task).suffix
           before_service == Len(TaskReports(task).prefix)
           after_service == before_service + Len(TaskReports(task).service)
           next == position + 1
           final == next = Len(reports) /\ task.file_type # "other"
           initial == task.queue = "celery" /\ next = 1
           processing == next = (IF task.queue = "celery" THEN 2 ELSE 1)
       IN  /\ position < Len(reports)
           /\ progress' = Min(reports[next], 100)
           /\ status' = CASE final -> (IF service_result = "error" THEN "error" ELSE "completed")
                           [] initial -> "pending"
                           [] processing -> "processing"
                           [] OTHER -> status
           /\ task_result' = CASE final /\ service_result # "error" -> "result"
                                [] initial -> "None"
                                [] OTHER -> task_result
           /\ task_error' = CASE final /\ service_result = "error" -> "message"
                               [] initial -> "None"
                               [] OTHER -> task_error
           /\ service_result' = IF next = after_service /\ next > before_service
                                     /\ service_result = "none"
                                 THEN "result" ELSE service_result
           /\ ended' = IF final THEN "returned" ELSE ended
           /\ task_pc' = IF final THEN "done" ELSE "running"
    /\ position' = position + 1
    /\ UNCHANGED retries
    /\ TaskFrame

\* an exception inside the service call: the service returns an error result
\* and reports nothing more
ServiceFails ==
    /\ task_pc = "running"
    /\ position >= Len(TaskReports(task).prefix)
    /\ position < Len(TaskReports(task).prefix) + Len(TaskReports(task).service)
    /\ position' = Len(TaskReports(task).prefix) + Len(TaskReports(task).service)
    /\ service_result' = "error"
    /\ UNCHANGED <<progress, retries, status, task_result, task_error, ended, task_pc>>
    /\ TaskFrame

\* the handler leaves the status as it was
TaskFails_StatusKept ==
    /\ task_pc = "running"
    /\ position >= 1
    /\ task.file_type = "other" => position = Len(TaskReports(task).prefix)
    /\ task_error' = "message"
    /\ progress' = 100
    /\ ended' = "raised"
    /\ task_pc' = IF task.queue = "celery" /\ retries < max_retries THEN "retry" ELSE "done"
    /\ UNCHANGED <<position, retries, status, task_result, service_result>>
    /\ TaskFrame

\* a retry is still asked for when self.request.retries has reached max_retries
TaskFails_OneMoreRetry ==
    /\ task_pc = "running"
    /\ position >= 1
    /\ task.file_type = "other" => position = Len(TaskReports(task).prefix)
    /\ status' = "error"
    /\ task_error' = "message"
    /\ progress' = 100
    /\ ended' = "raised"
    /\ task_pc' = IF task.queue = "celery" /\ retries <= max_retries THEN "retry" ELSE "done"
    /\ UNCHANGED <<position, retries, task_result, service_result>>
    /\ TaskFrame

\* an exception in the task body, such as the ValueError for an unsupported
\* file type: the handler records ERROR and reports 100; a Celery task then
\* asks for a retry
TaskFails ==
    /\ task_pc = "running"
    /\ position >= 1
    /\ task.file_type = "other" => position = Len(TaskReports(task).prefix)
    /\ status' = "error"
    /\ task_error' = "message"
    /\ progress' = 100
    /\ ended' = "raised"
    /\ task_pc' = IF task.queue = "celery" /\ retries < max_retries THEN "retry" ELSE "done"
    /\ UNCHANGED <<position, retries, task_result, service_result>>
    /\ TaskFrame

\* the retry: process_document_task is executed again for the same task id
RetryTask ==
    /\ task_pc = "retry"
    /\ retries' = retries + 1
    /\ position' = 0
    /\ service_result' = "none"
    /\ ended' = "no"
    /\ task_pc' = "running"
    /\ UNCHANGED <<progress, status, task_result, task_error>>
    /\ TaskFrame

SpecTasks == InitTasks /\ [][Report \/ ServiceFails \/ TaskFails \/ RetryTask]_vars

\* the event loop keeps running the processing coroutine and the worker keeps
\* running the task: a step that can be taken is eventually taken
SpecTasksFair == SpecTasks /\ WF_vars(Report \/ ServiceFails \/ TaskFails \/ RetryTask)

\* ------------------------------------------------------------------------
\* Properties of extract_text_multi_engine
\* The selection step rewrites an element of results, so a property of the
\* selection relates results before the step to returned after it.
\* ------------------------------------------------------------------------

\* the step in which extract_text_multi_engine picks what it returns
SelectReturns == pc = "select" /\ pc' = "done"

SomeText(rs) == \E i \in 1..Len(rs) : rs[i].text # ""

AtLeastThreshold(rs) == \E i \in 1..Len(rs) : ~FracLess(rs[i].confidence, Frac(8, 10))

\* the first index among those of the highest confidence
HighestFirst(rs) ==
    CHOOSE i \in 1..Len(rs) :
        /\ \A j \in 1..Len(rs) : ~FracLess(rs[i].confidence, rs[j].confidence)
        /\ \A j \in 1..(i - 1) : FracLess(rs[j].confidence, rs[i].confidence)

\* confidence * (length / 1000) of a is below that of b
ScoreLess(a, b) ==
    a.confidence.num * Len(a.text) * b.confidence.den
        < b.confidence.num * Len(b.text) * a.confidence.den

\* the first index in among of those of the highest score
MaxScoreFirst(rs, among) ==
    CHOOSE i \in among :
        /\ \A j \in among : ~ScoreLess(rs[i], rs[j])
        /\ \A j \in among : j < i => ScoreLess(rs[j], rs[i])

\* C1: whenever at least one contributing engine returned non-empty text, the
\* text of the result extract_text_multi_engine returns is non-empty.
C1_TextSurvivesSelection ==
    [][(SelectReturns /\ SomeText(results)) => returned'.text # ""]_vars

\* C2: when consensus is not attempted (some confidence is at least 0.8, or
\* exactly one engine contributed), the result returned is that of the engine
\* with the highest confidence, the first in iteration order among equals.
C2_HighestConfidenceFirstSeen ==
    [][(SelectReturns /\ results # <<>> /\ (AtLeastThreshold(results) \/ Len(results) = 1))
        => returned' = results[HighestFirst(results)]]_vars

\* two engines tie on the highest confidence with different results, and the
\* earlier one is returned untouched
C2_TieReturned ==
    /\ pc = "done"
    /\ AtLeastThreshold(results)
    /\ \E i, j \in 1..Len(results) :
           /\ i < j
           /\ results[i].confidence = results[j].confidence
           /\ results[i].text # results[j].text
           /\ returned = results[i]
           /\ \A k \in 1..Len(results) : ~FracLess(results[i].confidence, results[k].confidence)

\* C3 as stated: when every confidence is below 0.8 and more than one engine
\* contributed, the returned text is that of the first candidate of the highest
\* confidence * (length / 1000) over all candidates, and the tag is "consensus".
C3_ConsensusOverAllCandidates ==
    [][(SelectReturns /\ Len(results) > 1 /\ ~AtLeastThreshold(results))
        => /\ returned'.text = results[MaxScoreFirst(results, 1..Len(results))].text
           /\ returned'.method = "consensus"]_vars

\* C3 as amended: when every confidence is below 0.8 and more than one engine
\* contributed, then if some candidate has text the returned text is that of
\* the first candidate of the highest confidence * (length / 1000) among the
\* candidates with text and the tag is "consensus" (confidence and the other
\* fields stay those of the highest-confidence result); if no candidate has
\* text the highest-confidence result is returned unchanged.
C3_ConsensusOverCandidatesWithText ==
    [][(SelectReturns /\ Len(results) > 1 /\ ~AtLeastThreshold(results))
        => LET with_text == {i \in 1..Len(results) : results[i].text # ""}
               best == results[HighestFirst(results)]
           IN  IF with_text # {}
               THEN returned' = [best EXCEPT !.text = results[MaxScoreFirst(results, with_text)].text,
                                             !.method = "consensus"]
               ELSE returned' = best]_vars

\* consensus replaced the text of the highest-confidence result by the longer
\* text of a less confident engine
C3_LongerTextChosen ==
    /\ pc = "done"
    /\ returned.method = "consensus"
    /\ \E i \in 1..Len(results) :
           /\ results[i].method # "consensus"
           /\ results[i].text = returned.text
           /\ FracLess(results[i].confidence, returned.confidence)
           /\ \E j \in 1..Len(results) :
                  /\ results[j].method \notin {"consensus", results[i].method}
                  /\ results[j].text \notin {"", returned.text}

\* C4: when no engine produced a result (the candidate list is empty),
\* extract_text_multi_engine returns text "", confidence 0 and method "none".
C4_NoEngineReturnsNone ==
    (pc = "done" /\ results = <<>>)
        => (returned.text = "" /\ returned.confidence = Frac(0, 1) /\ returned.method = "none")

\* a call through a registry without any engine has returned
C4_EmptyCandidateList ==
    /\ pc = "done"
    /\ \A e \in DOMAIN engines : ~engines[e]
    /\ results = <<>>
    /\ returned # Pending

EmptyOrZeroConfidence(rs) ==
    \A i \in 1..Len(rs) : rs[i].text = "" \/ rs[i].confidence = Frac(0, 1)

NoText(rs) == \A i \in 1..Len(rs) : rs[i].text = ""

\* C5 as stated: when every available engine produced empty or zero-confidence
\* text, the result has empty text, confidence 0 and method "none".
C5_NoUsableResultIsNone ==
    [][(SelectReturns /\ results # <<>> /\ EmptyOrZeroConfidence(results))
        => /\ returned'.text = ""
           /\ returned'.confidence = Frac(0, 1)
           /\ returned'.method = "none"]_vars

\* C5 as amended: when every available engine produced empty text, the result
\* returned is the unchanged result of the first engine of the highest
\* confidence: its text is empty, its tag is that engine's and never "none", and
\* when every confidence is 0 it is the result of the first contributing engine
\* with confidence 0.
C5_NoTextReturnsHighestUnchanged ==
    [][(SelectReturns /\ results # <<>> /\ NoText(results))
        => /\ returned' = results[HighestFirst(results)]
           /\ returned'.text = ""
           /\ returned'.method \in {"tesseract_advanced", "easyocr", "paddleocr"}
           /\ (\A i \in 1..Len(results) : results[i].confidence = Frac(0, 1))
                  => (returned' = results[1] /\ returned'.confidence = Frac(0, 1))]_vars

\* several engines contributed, none produced text or confidence, and the
\* result of the first one came back
C5_AllEnginesEmpty ==
    /\ pc = "done"
    /\ Len(results) > 1
    /\ NoText(results)
    /\ \A i \in 1..Len(results) : results[i].confidence = Frac(0, 1)
    /\ failed # {}
    /\ returned = results[1]

\* the engine a result came from, by the tag its adapter sets
EngineOfTag(method) ==
    CASE method = "tesseract_advanced" -> "tesseract"
      [] method = "easyocr" -> "easyocr"
      [] method = "paddleocr" -> "paddleocr"
      [] OTHER -> "none"

\* C6: an engine adapter whose recognition failed (for the primary engine:
\* every page-segmentation attempt failed) returns text "", confidence 0 and an
\* error field giving the reason.
C6_FailureCarriesError ==
    pc \in {"call_easyocr", "call_paddleocr", "select"}
        => \A i \in 1..Len(results) :
               EngineOfTag(results[i].method) \in failed
                   => /\ results[i].text = ""
                      /\ results[i].confidence = Frac(0, 1)
                      /\ "error" \in DOMAIN results[i]

\* ------------------------------------------------------------------------
\* Properties of _calculate_confidence
\* ------------------------------------------------------------------------

\* rows of the table whose confidence is strictly greater than 0
PositiveRows(data) == {i \in 1..Len(data.conf) : data.conf[i] > 0}

RECURSIVE SumOfRows(_, _)
SumOfRows(data, rows) ==
    IF rows = {} THEN 0
    ELSE LET i == CHOOSE r \in rows : TRUE IN data.conf[i] + SumOfRows(data, rows \ {i})

\* C7: _calculate_confidence returns the mean of the token confidences strictly
\* greater than 0, divided by 100; the result lies in [0,1] and is exactly 0
\* when no token confidence is greater than 0.
C7_MeanOfPositiveConfidences ==
    scorer_pc = "scored"
        => LET rows == PositiveRows(ocr_data)
           IN  /\ confidence.den > 0
               /\ confidence.num * 100 * Cardinality(rows)
                      = SumOfRows(ocr_data, rows) * confidence.den
               /\ 0 <= confidence.num
               /\ confidence.num <= confidence.den
               /\ (rows = {} => confidence.num = 0)
               /\ (rows # {} => confidence.num > 0)

\* a table holding a non-text row (-1), a zero and a positive confidence was scored
C7_MixedRowsScored ==
    /\ scorer_pc = "scored"
    /\ \E i, j, k \in 1..Len(ocr_data.conf) :
           ocr_data.conf[i] = -1 /\ ocr_data.conf[j] = 0 /\ ocr_data.conf[k] > 0
    /\ confidence.num > 0

\* ------------------------------------------------------------------------
\* Properties of post_process_text
\* ------------------------------------------------------------------------

\* C8: post_process_text is idempotent:
\* post_process_text(post_process_text(t)) = post_process_text(t) for every text t.
C8_PostProcessIdempotent ==
    post_pc = "reprocessed" => reprocessed_text = processed_text

\* ------------------------------------------------------------------------
\* Properties of the character disambiguator
\* ------------------------------------------------------------------------

\* C9: _intelligent_character_disambiguation outputs exactly as many
\* whitespace-delimited words as its input has, and the i-th output word is the
\* corrected form of the i-th input word.
C9_WordsPreservedInOrder ==
    dis_pc = "done"
        => LET input_words == Split(text)
               output_words == Split(disambiguated)
           IN  /\ Len(output_words) = Len(input_words)
               /\ \A i \in 1..Len(input_words) :
                      output_words[i] = CorrectedWord(input_words, i - 1)

\* a text of several words came out with one of its words corrected
C9_SeveralWordsOneCorrected ==
    /\ dis_pc = "done"
    /\ Len(Split(text)) = MaxWords
    /\ disambiguated # text
    /\ \E i \in 1..Len(Split(text)) : Split(disambiguated)[i] = Split(text)[i]

\* C10: _disambiguate_word returns a word with as many characters as its input,
\* also when the word contains punctuation.
C10_LengthPreserved ==
    (dis_pc = "loop" /\ word_index > 0) => Len(corrected_core) = Len(core_word)

\* a word with punctuation inside was rewritten by the multi-character rule
C10_PunctuatedWordRewritten ==
    /\ dis_pc = "loop"
    /\ word_index > 0
    /\ Contains(core_word, "-")
    /\ corrected_core # core_word
    /\ corrected_core =
           DisambiguateMultiCharPatterns(core_word, context_words, word_index - 1)

\* C11: disambiguation preserves punctuation: for every token the leading and
\* trailing non-word characters are reattached unchanged around the corrected
\* core, and every non-alphanumeric character of the token appears unchanged at
\* the same position in the output token.
C11_PunctuationPreserved ==
    dis_pc = "done"
        => LET input_words == Split(text)
               output_words == Split(disambiguated)
           IN  \A i \in 1..Len(input_words) :
                   LET token == input_words[i]
                       parts == WordParts(token)
                       output == output_words[i]
                   IN  /\ Len(output) = Len(token)
                       /\ SubSeq(output, 1, Len(parts.prefix)) = parts.prefix
                       /\ EndsWith(output, parts.suffix)
                       /\ \A k \in 1..Len(token) :
                              ~IsAlnum(Char(token, k)) => Char(output, k) = Char(token, k)

\* C16: per-word resolution applies rule 0 (multi-character/entity), rule 1
\* (alphanumeric), rule 2 (linguistic), rule 3 (positional) in this order and
\* stops early: after any rule has returned a word that differs from the rule's
\* input and contains a digit, no later rule is applied to that word.
C16_StopsAfterAnyDigitChange ==
    (word_index > 0 /\ core_word # "")
        => LET i == word_index - 1
               r0 == DisambiguateMultiCharPatterns(core_word, context_words, i)
               r1 == DisambiguateAlphanumeric(r0, context_words)
               r2 == DisambiguateLinguisticPatterns(r1, context_words, i)
               r3 == DisambiguatePositional(r2, context_words, i)
           IN  corrected_core =
                   IF HasDigitChange(r0, core_word) THEN r0
                   ELSE IF HasDigitChange(r1, r0) THEN r1
                   ELSE IF HasDigitChange(r2, r1) THEN r2
                   ELSE r3

\* C17: for every word that already contains a digit, the output word has no
\* ambiguous letter left: no 'l', 'L' or 'O', and no 'I' when the word is longer
\* than one character.
C17_DigitWordFullyNormalized ==
    (word_index > 0 /\ AnyDigit(core_word))
        => \A k \in 1..Len(corrected_core) :
               /\ Char(corrected_core, k) \notin {"l", "L", "O"}
               /\ Len(corrected_core) > 1 => Char(corrected_core, k) # "I"

\* the word last handled is immediately followed by a capitalized token of the
\* common-surname list
FollowedBySurname ==
    /\ word_index > 0
    /\ word_index < Len(context_words)
    /\ LET next_word == At(context_words, word_index)
       IN  IsUpper(Char(next_word, 1)) /\ Lower(next_word) \in common_surnames

\* C18: surname guard: a word ending in 'l' that is immediately followed by a
\* capitalized common surname is output unchanged, and in particular is never
\* converted to a digit-bearing form, whatever other words the sentence contains.
C18_SurnameGuardKeepsWord ==
    (FollowedBySurname /\ EndsWith(core_word, "l"))
        => /\ ~AnyDigit(corrected_core)
           /\ corrected_core = core_word

\* the word last handled is a single 'l' or '1' at word index 0 or right after
\* a token ending in '.'
AmbiguousAtSentenceStart ==
    /\ word_index > 0
    /\ core_word \in {"l", "1"}
    /\ \/ word_index = 1
       \/ EndsWith(At(context_words, word_index - 2), ".")

C20_TableReplacementInNumericContext ==
    (word_index > 0 /\ IsNumericContext(context_words))
        => \A correction \in multi_char_corrections :
               core_word = correction[1] => corrected_core = correction[2]

\* C13: enhance_image_for_ocr never raises: when a preprocessing step fails it
\* returns the original input image object unchanged, never a partially
\* processed image.
C13_FailureReturnsOriginal ==
    enhance_pc = "returned"
        => /\ ~enhance_result.raises
           /\ enhance_failed => enhance_result.value = image

\* a step failed after earlier steps had already produced a working image
C13_FailedAfterSomeSteps ==
    /\ enhance_pc = "returned"
    /\ enhance_failed
    /\ gray.steps > 0
    /\ gray # image
    /\ enhance_result.value = image

\* the size the scaling rule gives for the input image
ScaledSize ==
    IF image.width < 1000 \/ image.height < 1000
    THEN <<image.width * Max(2, 1500 \div Max(image.width, image.height)),
           image.height * Max(2, 1500 \div Max(image.width, image.height))>>
    ELSE <<image.width, image.height>>

\* C14: for every input size the returned image is at least as wide and as
\* high as the input: when either dimension is below 1000 both are multiplied
\* by max(2, 1500 // max(width, height)), otherwise the size is unchanged.
C14_ReturnedSizeIsScaledSize ==
    enhance_pc = "returned"
        => /\ enhance_result.value.width >= image.width
           /\ enhance_result.value.height >= image.height
           /\ <<enhance_result.value.width, enhance_result.value.height>> = ScaledSize

\* C14 (amended): the returned image is at least as wide and as high as the
\* input; when no preprocessing step fails its size is the scaled size, and
\* when a step fails its size is the input's.
C14_ScaledUnlessFailed ==
    enhance_pc = "returned"
        => /\ enhance_result.value.width >= image.width
           /\ enhance_result.value.height >= image.height
           /\ <<enhance_result.value.width, enhance_result.value.height>> =
                  IF enhance_failed THEN <<image.width, image.height>> ELSE ScaledSize

\* a 400 x 300 image came back as 1200 x 900
C14_SmallImageScaled ==
    /\ enhance_pc = "returned"
    /\ ~enhance_failed
    /\ image.width = 400 /\ image.height = 300
    /\ enhance_result.value.width = 1200 /\ enhance_result.value.height = 900

C15_ProgressNeverDecreases == [][progress' >= progress]_vars

\* C21: a word of the common-English-word whitelist is never modified by the
\* disambiguator, at any position and in any context.
C21_CommonWordUnmodified ==
    (word_index > 0 /\ Lower(core_word) \in common_words) => corrected_core = core_word

\* C22: every image returned by a successful enhance_image_for_ocr is at least
\* 1000 pixels on its short edge.
C22_ShortEdgeAtLeast1000 ==
    (enhance_pc = "returned" /\ ~enhance_failed)
        => Min(enhance_result.value.width, enhance_result.value.height) >= 1000

\* C22 (amended): every image returned by a successful enhance_image_for_ocr is
\* at least 1000 pixels on its long edge.
C22_LongEdgeAtLeast1000 ==
    (enhance_pc = "returned" /\ ~enhance_failed)
        => Max(enhance_result.value.width, enhance_result.value.height) >= 1000

\* a 501 x 300 image was scaled by 2: long edge 1002, short edge 600
C22_ScaledBelow1000OnShortEdge ==
    /\ enhance_pc = "returned"
    /\ ~enhance_failed
    /\ image.width = 501 /\ image.height = 300
    /\ enhance_result.value.width = 1002 /\ enhance_result.value.height = 600

\* C23: every token confidence in the word list of an engine result and every
\* engine's mean confidence lies in [0,1], for every backend table whose
\* confidences are integers in -1..100.
C23_ConfidencesInUnitInterval ==
    scorer_pc = "scored"
        => /\ 0 <= confidence.num /\ confidence.num <= confidence.den
           /\ \A i \in 1..Len(words) :
                  0 <= words[i].confidence.num
                      /\ words[i].confidence.num <= words[i].confidence.den

\* the loop over psm_configs has ended and best_result is final
LoopEnded == pc = "psm_loop" /\ config_index > Len(psm_configs)

\* attempt i returned, no returned attempt has a greater confidence and no
\* earlier returned attempt has the same confidence
EarliestHighest(i) ==
    /\ ~attempts[i].raised
    /\ \A j \in 1..Len(attempts) :
           ~attempts[j].raised
               => /\ ~FracLess(attempts[i].confidence, attempts[j].confidence)
                  /\ (j < i => FracLess(attempts[j].confidence, attempts[i].confidence))

IsKept(i) ==
    /\ "config" \in DOMAIN best_result
    /\ best_result.config = psm_configs[i]
    /\ best_result.text = attempts[i].text
    /\ best_result.confidence = attempts[i].confidence
    /\ best_result.words = attempts[i].words

\* C24: the primary engine tries every page-segmentation configuration in
\* order, an attempt that raises being skipped, and keeps the attempt with the
\* highest computed confidence, the earliest one on ties.
C24_KeepsEarliestHighest ==
    LoopEnded
        => /\ Len(attempts) = Len(psm_configs)
           /\ \A i \in 1..Len(attempts) : EarliestHighest(i) => IsKept(i)

\* C24 (amended): as above when the highest computed confidence is greater
\* than 0; when no attempt has a confidence greater than 0 the initial empty
\* best_result is kept.
C24_KeepsEarliestHighestPositive ==
    LoopEnded
        => /\ Len(attempts) = Len(psm_configs)
           /\ \A i \in 1..Len(attempts) :
                  EarliestHighest(i)
                      => IF FracLess(Zero, attempts[i].confidence)
                         THEN IsKept(i)
                         ELSE best_result = TesseractInitialBest

\* the second attempt raised, the first and the third tie on the highest
\* confidence and the first was kept
C24_TieKeptEarliest ==
    /\ LoopEnded
    /\ attempts[2].raised
    /\ EarliestHighest(1)
    /\ attempts[3].confidence = attempts[1].confidence
    /\ ~attempts[3].raised
    /\ FracLess(Zero, attempts[1].confidence)
    /\ IsKept(1)

AllAttemptsZero == \A i \in 1..Len(attempts) : attempts[i].confidence = Zero

\* C27: when every page-segmentation attempt computes confidence 0,
\* extract_text_tesseract_advanced returns empty text and confidence 0, even
\* when some attempt recognized non-empty text.
C27_AllZeroReturnsEmpty ==
    [][(pc = "psm_loop" /\ pc' = "call_easyocr" /\ AllAttemptsZero)
           => /\ results'[Len(results')].text = ""
              /\ results'[Len(results')].confidence = Zero
              /\ results'[Len(results')].method = "tesseract_advanced"]_vars

\* every attempt computed confidence 0, one of them recognized text, and the
\* kept result is still the empty initial one
C27_TextRecognizedAtZeroConfidence ==
    /\ LoopEnded
    /\ AllAttemptsZero
    /\ \E i \in 1..Len(attempts) : ~attempts[i].raised /\ Strip(attempts[i].text) # ""
    /\ best_result = TesseractInitialBest

\* C25: an engine result is immutable once produced: extract_text_multi_engine
\* leaves the text, confidence and method of every engine result of its
\* candidate list unchanged.
C25_EngineResultsUnchanged ==
    [][SelectReturns
           => /\ Len(results') = Len(results)
              /\ \A i \in 1..Len(results) :
                     /\ results'[i].text = results[i].text
                     /\ results'[i].confidence = results[i].confidence
                     /\ results'[i].method = results[i].method]_vars

WordsOf(result) == IF "words" \in DOMAIN result THEN result.words ELSE <<>>

\* C26: the confidence returned by extract_text_multi_engine is the maximum
\* confidence over the engine results, and the returned confidence and word
\* list are those of a highest-confidence engine even when consensus replaced
\* the text by another engine's text.
C26_ConfidenceOfBestEngine ==
    [][(SelectReturns /\ results # <<>>)
           => \E b \in 1..Len(results) :
                  /\ \A i \in 1..Len(results) :
                         ~FracLess(results[b].confidence, results[i].confidence)
                  /\ returned'.confidence = results[b].confidence
                  /\ WordsOf(returned') = WordsOf(results[b])]_vars

\* consensus gave the returned result the text of a less confident engine while
\* it kept its own confidence and words
C26_TextOfLessConfidentEngine ==
    /\ pc = "done"
    /\ returned.method = "consensus"
    /\ \E b, t \in 1..Len(results) :
           /\ results[b] = returned
           /\ results[t].text = returned.text
           /\ FracLess(results[t].confidence, returned.confidence)
           /\ WordsOf(results[t]) # WordsOf(returned)

FinalStatus == {"completed", "error"}

StatusTransitions ==
    {<<"pending", "processing">>, <<"processing", "completed">>, <<"processing", "error">>}

\* C28: every task of the in-memory queue eventually reaches status COMPLETED
\* or ERROR, whether processing succeeds, returns an error result, raises or
\* the file type is unsupported; its status changes only along PENDING ->
\* PROCESSING -> COMPLETED or ERROR, so a final status never changes again.
C28_MemoryTaskReachesFinalStatus ==
    /\ (task.queue = "memory") ~> (status \in FinalStatus)
    /\ [][(task.queue = "memory" /\ status' # status)
              => <<status, status'>> \in StatusTransitions]_vars

\* an in-memory task of unsupported file type has ended with status ERROR
C28_UnsupportedTypeEndedInError ==
    /\ task.queue = "memory"
    /\ task.file_type = "other"
    /\ task_pc = "done"
    /\ ended = "raised"
    /\ status = "error"

\* C29: in every state of an in-memory task that a status query can observe,
\* progress is between 0 and 100, progress is 100 exactly when the status is
\* COMPLETED or ERROR, COMPLETED implies a result and no error, and ERROR
\* implies an error and no result.
C29_ObservableRecordConsistent ==
    (task.queue = "memory" /\ task_pc # "idle")
        => /\ 0 <= progress /\ progress <= 100
           /\ progress = 100 <=> status \in FinalStatus
           /\ status = "completed" => (task_result # "None" /\ task_error = "None")
           /\ status = "error" => (task_error # "None" /\ task_result = "None")

\* an in-memory task whose service call returned an error result has ended
\* with status ERROR at progress 100
C29_ErrorResultRecorded ==
    /\ task.queue = "memory"
    /\ task_pc = "done"
    /\ ended = "returned"
    /\ service_result = "error"
    /\ status = "error"
    /\ progress = 100

\* C30: a Celery task is retried only when an attempt raised (an attempt whose
\* processor returned an error result records ERROR and is not retried), it is
\* retried at most max_retries times, and after its last attempt the status
\* record is COMPLETED or ERROR with progress 100.
C30_RetriedOnlyOnException ==
    task.queue = "celery"
        => /\ retries <= max_retries
           /\ task_pc = "retry" => ended = "raised"
           /\ ended = "returned" => task_pc = "done"
           /\ (ended = "returned" /\ service_result = "error") => status = "error"
           /\ task_pc = "done" => (status \in FinalStatus /\ progress = 100)

\* a Celery task raised in its first execution and in all three retries and
\* ended with status ERROR at progress 100
C30_RetriesExhausted ==
    /\ task.queue = "celery"
    /\ task_pc = "done"
    /\ retries = max_retries
    /\ ended = "raised"
    /\ status = "error"
    /\ progress = 100
====
